---------------------------- MODULE Spec2Model ----------------------------
(***************************************************************************)
(* The search backend of iTuneSearchAPI: the endpoint                      *)
(* GET /search/:searchWord (backend/src/index.ts), the service             *)
(* searchAndSave (services/searchResultService.ts) and the SearchResult    *)
(* collection (backend/src/models/searchResult.ts); and, with a state and  *)
(* a specification of its own (SpecPage), the Search page of the front     *)
(* end, which calls the endpoint from the browser.                         *)
(*                                                                         *)
(* Node runs a handler without interruption between two awaits, so one     *)
(* action is the code from one await to the next: the handler up to the    *)
(* fetch, the continuation after the catalog answered up to the first      *)
(* findOneAndUpdate, and the continuation after each findOneAndUpdate      *)
(* (settled or rejected) up to the next one or to the response.  Several   *)
(* requests interleave at these awaits.                                    *)
(*                                                                         *)
(* Library behaviour the code relies on, as modelled:                      *)
(*  - Express matches '/search/:searchWord' only against a path whose      *)
(*    last segment is non-empty; an unmatched GET is answered 404 by       *)
(*    Express itself and the handler does not run.                         *)
(*  - Mongoose's findOneAndUpdate(filter, doc, {upsert, new}) sends doc as *)
(*    $set with the keys whose value is undefined removed, runs no         *)
(*    validators, applies schema defaults only when the upsert inserts,    *)
(*    and resolves with the document as it is after the write.             *)
(***************************************************************************)
EXTENDS Integers, Sequences, FiniteSets, TLC

(* ------------------------------ bounds -------------------------------- *)

\* Number of requests the model follows (they may overlap).
MaxRequests == 2

\* Longest `results` array (and longest `results` string) the catalog sends.
MaxItems == 2

\* Number of times the millisecond clock advances.
MaxTicks == 1

\* First reading of the millisecond clock; above every catalog id.
EpochStart == 10

Requests == 1..MaxRequests

(* --------------------------- JavaScript values ------------------------ *)

\* The value of a property that is not there.
Undefined == "<undefined>"

\* item[f], undefined when the item has no such property.
Prop(item, f) == IF f \in DOMAIN item THEN item[f] ELSE Undefined

\* Truthiness of a numeric property: there, and not 0.
TruthyNum(item, f) == f \in DOMAIN item /\ item[f] # 0

\* Truthiness of a string property: there, and not ''.
TruthyStr(item, f) == f \in DOMAIN item /\ item[f] # ""

(* ----------------------------- the catalog ---------------------------- *)

\* Catalog items the external API may return.  A full song, a collection
\* sharing the song's id but lacking kind and artwork, a second track that
\* lacks names and links, and an item with neither trackId nor collectionId.
ItemFull ==
    [trackId |-> 1, kind |-> "song", artistName |-> "A",
     collectionName |-> "C", collectionViewUrl |-> "cv",
     artworkUrl600 |-> "i600", artworkUrl100 |-> "i100"]

ItemBare ==
    [collectionId |-> 1, artistName |-> "B", trackName |-> "T",
     trackViewUrl |-> "tv"]

ItemTrack ==
    [trackId |-> 2, collectionId |-> 1, kind |-> "podcast",
     artistName |-> "A", artworkUrl100 |-> "i100"]

ItemNoId ==
    [kind |-> "song", artistName |-> "A", collectionName |-> "C"]

ItemPool == {ItemFull, ItemBare, ItemTrack, ItemNoId}

\* One character of a string: a primitive, on which every property the code
\* reads (trackId, kind, ...) is undefined.
CharItem == [char |-> "x"]

RECURSIVE SeqsUpTo(_, _)
SeqsUpTo(S, n) ==
    IF n = 0 THEN {<<>>}
    ELSE LET shorter == SeqsUpTo(S, n - 1)
         IN  shorter \cup {Append(s, x) : s \in {t \in shorter : Len(t) = n - 1}, x \in S}

\* What the outbound GET can come to.  `net` is "rejected" when fetch itself
\* rejects; `ok` is response.ok; `json` is "invalid" when response.json()
\* rejects; `results` is the type of data.results, with its elements when it
\* is an array and its characters when it is a string.
Reply(net, ok, status, json, results, elems) ==
    [net |-> net, ok |-> ok, status |-> status, json |-> json,
     results |-> results, elems |-> elems]

ArrayReplies ==
    {Reply("settled", TRUE, 200, "valid", "array", s) : s \in SeqsUpTo(ItemPool, MaxItems)}

StringReplies ==
    {Reply("settled", TRUE, 200, "valid", "string", s) :
        s \in SeqsUpTo({CharItem}, MaxItems) \ {<<>>}}

MalformedReplies ==
    {Reply("settled", TRUE, 200, "valid", t, <<>>) : t \in {"undefined", "null", "object"}}

FailedReplies ==
    {Reply("rejected", FALSE, 0, "invalid", "undefined", <<>>),
     Reply("settled", TRUE, 200, "invalid", "undefined", <<>>),
     Reply("settled", FALSE, 503, "valid", "undefined", <<>>),
     Reply("settled", FALSE, 503, "valid", "array", <<ItemFull>>)}

Replies == ArrayReplies \cup StringReplies \cup MalformedReplies \cup FailedReplies

\* Items for the fallbacks of normalization: each of the two properties a
\* fallback reads is absent, falsy (0, '') or truthy.
Extend(item, f, v) ==
    [g \in DOMAIN item \cup {f} |-> IF g = f THEN v ELSE item[g]]

With(items, f, values) ==
    items \cup {Extend(item, f, v) : item \in items, v \in values}

IdItems ==
    With(With({[artistName |-> "A"]}, "trackId", {0, 1}), "collectionId", {0, 2})

NameItems ==
    With(With({[trackId |-> 3]}, "collectionName", {"", "C"}), "trackName", {"", "T"})

UrlItems ==
    With(With({[trackId |-> 4]}, "collectionViewUrl", {"", "cv"}), "trackViewUrl", {"", "tv"})

FieldReplies ==
    {Reply("settled", TRUE, 200, "valid", "array", <<item>>) :
        item \in IdItems \cup NameItems \cup UrlItems}

\* No reply yet.
NoReply == Reply("pending", FALSE, 0, "invalid", "undefined", <<>>)

(* ------------------------- searchAndSave: pure parts ------------------ *)

\* response.ok checked after the fetch settled (part_000:21-24).
ResponseOkAlways(reply) == TRUE

ResponseOk(reply) == reply.ok

\* Whether the code before the loop throws into the outer catch: fetch
\* rejects, the status is not ok, the body is not JSON, or `for ... of
\* data.results` is given a value that is not iterable (part_000:18-30).
\* Arrays and strings are the iterable JSON values.
ThrowsBeforeLoop(reply) ==
    \/ reply.net = "rejected"
    \/ ~ResponseOk(reply)
    \/ reply.json = "invalid"
    \/ reply.results \notin {"array", "string"}

\* The values `for (const item of data.results)` goes through.
Iterated(reply) == reply.elems

\* id: item.trackId || item.collectionId || Date.now()  (part_000:34)
RecordIdSynthetic(item, now) == now

RecordIdConstant(item, now) ==
    IF TruthyNum(item, "trackId") THEN item.trackId
    ELSE IF TruthyNum(item, "collectionId") THEN item.collectionId
    ELSE 0

RecordIdCollectionFirst(item, now) ==
    IF TruthyNum(item, "collectionId") THEN item.collectionId
    ELSE IF TruthyNum(item, "trackId") THEN item.trackId
    ELSE now

RecordId(item, now) ==
    IF TruthyNum(item, "trackId") THEN item.trackId
    ELSE IF TruthyNum(item, "collectionId") THEN item.collectionId
    ELSE now

\* a || b || ''  on two string properties (part_000:37-38)
OrOrEmptyNoDefault(item, a, b) == IF TruthyStr(item, a) THEN item[a] ELSE Prop(item, b)

OrOrEmpty(item, a, b) ==
    IF TruthyStr(item, a) THEN item[a]
    ELSE IF TruthyStr(item, b) THEN item[b]
    ELSE ""

\* a || b  on two string properties (part_000:39): the second operand as it
\* is, undefined included, when the first is falsy.
OrElse(item, a, b) == IF TruthyStr(item, a) THEN item[a] ELSE Prop(item, b)

\* The object literal searchResult (part_000:33-41).  Date.now() and
\* new Date() are read in the same synchronous step: one clock reading.
Normalize(item, now) ==
    [id                |-> RecordId(item, now),
     kind              |-> Prop(item, "kind"),
     artistName        |-> Prop(item, "artistName"),
     collectionName    |-> OrOrEmpty(item, "collectionName", "trackName"),
     collectionViewUrl |-> OrOrEmpty(item, "collectionViewUrl", "trackViewUrl"),
     image             |-> OrElse(item, "artworkUrl600", "artworkUrl100"),
     searchDate        |-> now]

(* ------------------------------ the store ----------------------------- *)

\* The paths of searchResultSchema other than id (searchResult.ts:13-21).
MutableFields ==
    {"kind", "artistName", "collectionName", "collectionViewUrl", "image", "searchDate"}

\* The schema's default for a path, applied when an upsert inserts
\* (searchResult.ts:19: image defaults to ""); searchDate is always in the
\* update, so its default never applies.
SchemaDefault(f) == IF f = "image" THEN "" ELSE Undefined

\* Whether the update object holds undefined under key f.  id and
\* searchDate are always numbers (part_000:34, 40).
IsUndefined(update, f) == f \notin {"id", "searchDate"} /\ update[f] = Undefined

\* $set of the update on an existing document: the keys whose value is
\* undefined are not sent, so the document keeps what it had there.
ApplySetKeepsDate(doc, update) ==
    [f \in DOMAIN doc |->
        IF f = "searchDate" \/ IsUndefined(update, f) THEN doc[f] ELSE update[f]]

ApplySet(doc, update) ==
    [f \in DOMAIN doc |-> IF IsUndefined(update, f) THEN doc[f] ELSE update[f]]

\* The document an upsert inserts when nothing matches the filter.
InsertedDoc(update) ==
    [f \in DOMAIN update |-> IF IsUndefined(update, f) THEN SchemaDefault(f) ELSE update[f]]

\* The documents matching the filter { id: searchResult.id }.
Matching(coll, id) == {d \in coll : d.id = id}

\* findOneAndUpdate({id}, searchResult, {upsert: true, new: true})
\* (part_000:44-48): the document after the write.
SavedDoc(coll, update) ==
    IF Matching(coll, update.id) = {}
    THEN InsertedDoc(update)
    ELSE ApplySet(CHOOSE d \in Matching(coll, update.id) : TRUE, update)

\* ... and the collection after the write.  The filter is on id, which the
\* schema declares unique (searchResult.ts:14): an upsert inserts only when
\* no document has the id, and the collection loses no document by it.
StoreAfterInsertsAlways(coll, update) == coll \cup {InsertedDoc(update)}

StoreAfterKeepsLatestOnly(coll, update) == {SavedDoc(coll, update)}

StoreAfter(coll, update) ==
    IF Matching(coll, update.id) = {}
    THEN coll \cup {InsertedDoc(update)}
    ELSE LET d == CHOOSE d \in Matching(coll, update.id) : TRUE
         IN  (coll \ {d}) \cup {ApplySet(d, update)}

\* savedResults.push(saved)  (part_000:50)
PushFront(saved, doc) == <<doc>> \o saved

Push(saved, doc) == Append(saved, doc)

\* The inner catch (part_000:51-53): logs, and leaves savedResults alone.
InnerCatchPushesUpdate(saved, update) == Append(saved, update)

InnerCatch(saved, update) == saved

\* The index the loop goes to after the inner catch ran for item i of n:
\* the try is inside the loop body, so the next item (part_000:30-54).
NextAfterCatchAborts(i, n) == n + 1

NextAfterCatchRetries(i, n) == i

NextAfterCatch(i, n) == i + 1

\* What a call of searchAndSave comes to for its caller: a returned list
\* (part_000:57), or the outer catch, which logs and returns []
\* (part_000:59-62).
Returned(list) == [threw |-> FALSE, value |-> list]

OuterCatchRethrows(reply) == [threw |-> TRUE, value |-> <<>>]

OuterCatch(reply) == Returned(<<>>)

(* ------------------------------ the endpoint -------------------------- *)

\* Search terms a client sends as the last path segment; "" is GET /search/.
Terms == {"", "jazz", "rock"}

\* Express's match of '/search/:searchWord' (index.ts:18): a named
\* parameter matches one or more characters other than '/'.
RouteMatches(t) == t # ""

\* What Express answers when no route matches.
NotFound == [status |-> 404, body |-> "Cannot GET"]

\* index.ts:22-27
BadRequest ==
    [status |-> 400,
     body |-> [success |-> FALSE, error |-> "searchWord parameter is required"]]

\* index.ts:32-38
ServerError ==
    [status |-> 500, body |-> [success |-> FALSE, error |-> "Internal server error"]]

\* index.ts:29-38: res.json(result), status 200 by default, or the catch.
RespondEnvelope(outcome) ==
    [status |-> 200, body |-> [success |-> TRUE, data |-> outcome.value]]

Respond(outcome) ==
    IF outcome.threw THEN ServerError ELSE [status |-> 200, body |-> outcome.value]

(* ------------------------------- the state ---------------------------- *)

VARIABLES
    store,          \* the SearchResult collection: a set of documents
    clock,          \* the millisecond clock Date.now() and new Date() read
    pc,             \* per request: "idle", "fetch", "upsert" or "done"
    term,           \* per request: the last path segment of its URL
    fetches,        \* per request: outbound GETs issued to the catalog
    reply,          \* per request: what its outbound GET came to
    idx,            \* per request: 1-based position of the loop in data.results
    searchResult,   \* per request: the update of the findOneAndUpdate awaited
    savedResults,   \* per request: the local savedResults
    attempts,       \* per request: the findOneAndUpdate calls made, each with its
                    \* update and whether the store settled (ok) or rejected it
    outcome,        \* per request: what searchAndSave came to in the handler
    responses,      \* per request: the HTTP responses sent
    overlap         \* per request: the requests in flight when it arrived

\* The state of the Search page (part_001:14-22) and of its browser tab.
VARIABLES
    mounted,         \* whether the page is mounted (its mount effect has run)
    searchTerm,      \* useState: the value of the search input
    results,         \* useState: 0 for [], n for the data of the page's n-th fetch
    loading,         \* useState
    hasSearched,     \* useState
    abortController, \* useState: 0 for null, n for the controller of the n-th fetch
    calls,           \* the searchAPI calls that went to fetch: term, position, aborted
    history,         \* the q parameter of each entry of the session history
    position         \* the current entry of the session history

serverVars ==
    <<store, clock, pc, term, fetches, reply, idx, searchResult, savedResults,
      attempts, outcome, responses, overlap>>

pageVars ==
    <<mounted, searchTerm, results, loading, hasSearched, abortController, calls,
      history, position>>

vars == <<serverVars, pageVars>>

\* No findOneAndUpdate awaited.
NoSearchResult == Normalize(CharItem, 0)

NoOutcome == [threw |-> FALSE, value |-> <<>>]

\* The page before it is mounted: the initial values of its useState
\* calls (part_001:14-22), no fetch made, one history entry.
MaxSearches == 3

Searches == 1..MaxSearches

NoCall == [term |-> "", at |-> "none", aborted |-> FALSE]

InitPage ==
    /\ mounted = FALSE
    /\ searchTerm = ""
    /\ results = 0
    /\ loading = FALSE
    /\ hasSearched = FALSE
    /\ abortController = 0
    /\ calls = [n \in Searches |-> NoCall]
    /\ history = <<"">>
    /\ position = 1

Init ==
    /\ store = {}
    /\ clock = EpochStart
    /\ pc = [r \in Requests |-> "idle"]
    /\ term = [r \in Requests |-> ""]
    /\ fetches = [r \in Requests |-> 0]
    /\ reply = [r \in Requests |-> NoReply]
    /\ idx = [r \in Requests |-> 0]
    /\ searchResult = [r \in Requests |-> NoSearchResult]
    /\ savedResults = [r \in Requests |-> <<>>]
    /\ attempts = [r \in Requests |-> <<>>]
    /\ outcome = [r \in Requests |-> NoOutcome]
    /\ responses = [r \in Requests |-> <<>>]
    /\ overlap = [r \in Requests |-> {}]
    /\ InitPage

InFlight == {q \in Requests : pc[q] \in {"fetch", "upsert"}}

(* ------------------------------ the actions --------------------------- *)

\* The clock advances by a millisecond.
Tick ==
    /\ clock < EpochStart + MaxTicks
    /\ clock' = clock + 1
    /\ UNCHANGED <<store, pc, term, fetches, reply, idx, searchResult, savedResults,
                   attempts, outcome, responses, overlap>>
    /\ UNCHANGED pageVars

\* A GET /search/<t> arrives (index.ts:18-29).  Requests take the slots
\* 1, 2, ... in the order they arrive.  Express answers 404 when the route
\* does not match; otherwise the handler runs: 400 when searchWord is falsy,
\* else searchAndSave builds the URL and awaits fetch (part_000:15-21).
Receive(r, t) ==
    /\ pc[r] = "idle"
    /\ \A q \in Requests : q < r => pc[q] # "idle"
    /\ term' = [term EXCEPT ![r] = t]
    /\ overlap' = [overlap EXCEPT ![r] = InFlight]
    /\ IF ~RouteMatches(t)
       THEN /\ responses' = [responses EXCEPT ![r] = Append(@, NotFound)]
            /\ pc' = [pc EXCEPT ![r] = "done"]
            /\ UNCHANGED fetches
       ELSE IF t = ""
       THEN /\ responses' = [responses EXCEPT ![r] = Append(@, BadRequest)]
            /\ pc' = [pc EXCEPT ![r] = "done"]
            /\ UNCHANGED fetches
       ELSE /\ fetches' = [fetches EXCEPT ![r] = @ + 1]
            /\ pc' = [pc EXCEPT ![r] = "fetch"]
            /\ UNCHANGED responses
    /\ UNCHANGED <<store, clock, reply, idx, searchResult, savedResults, attempts, outcome>>
    /\ UNCHANGED pageVars

\* searchAndSave comes to `out` and the handler answers (index.ts:29-38).
Finish(r, out) ==
    /\ outcome' = [outcome EXCEPT ![r] = out]
    /\ responses' = [responses EXCEPT ![r] = Append(@, Respond(out))]
    /\ pc' = [pc EXCEPT ![r] = "done"]
    /\ idx' = [idx EXCEPT ![r] = 0]
    /\ searchResult' = [searchResult EXCEPT ![r] = NoSearchResult]

\* The loop goes on with item `next` of the reply `rep`, having `saved` in
\* savedResults: it builds the item's searchResult and awaits its
\* findOneAndUpdate (part_000:30-48), or, past the last item, returns
\* savedResults (part_000:57).
Continue(r, rep, next, saved) ==
    /\ savedResults' = [savedResults EXCEPT ![r] = saved]
    /\ IF next <= Len(Iterated(rep))
       THEN /\ idx' = [idx EXCEPT ![r] = next]
            /\ searchResult' = [searchResult EXCEPT ![r] = Normalize(Iterated(rep)[next], clock)]
            /\ pc' = [pc EXCEPT ![r] = "upsert"]
            /\ UNCHANGED <<outcome, responses>>
       ELSE Finish(r, Returned(saved))

\* The outbound GET of request r comes to `rep` (part_000:21-30).
CatalogReply(r, rep) ==
    /\ pc[r] = "fetch"
    /\ reply' = [reply EXCEPT ![r] = rep]
    /\ IF ThrowsBeforeLoop(rep)
       THEN /\ Finish(r, OuterCatch(rep))
            /\ UNCHANGED savedResults
       ELSE Continue(r, rep, 1, <<>>)
    /\ UNCHANGED <<store, clock, term, fetches, attempts, overlap>>
    /\ UNCHANGED pageVars

\* The store performs the awaited findOneAndUpdate of request r and the
\* loop goes on (part_000:44-50).
UpsertSettled(r) ==
    /\ pc[r] = "upsert"
    /\ store' = StoreAfter(store, searchResult[r])
    /\ attempts' = [attempts EXCEPT ![r] = Append(@, [update |-> searchResult[r], ok |-> TRUE])]
    /\ Continue(r, reply[r], idx[r] + 1, Push(savedResults[r], SavedDoc(store, searchResult[r])))
    /\ UNCHANGED <<clock, term, fetches, reply, overlap>>
    /\ UNCHANGED pageVars

\* The store rejects the awaited findOneAndUpdate of request r; the inner
\* catch logs it and the loop goes on (part_000:51-54).
UpsertRejected(r) ==
    /\ pc[r] = "upsert"
    /\ attempts' = [attempts EXCEPT ![r] = Append(@, [update |-> searchResult[r], ok |-> FALSE])]
    /\ Continue(r, reply[r], NextAfterCatch(idx[r], Len(Iterated(reply[r]))),
                InnerCatch(savedResults[r], searchResult[r]))
    /\ UNCHANGED <<store, clock, term, fetches, reply, overlap>>
    /\ UNCHANGED pageVars

Next ==
    \/ Tick
    \/ \E r \in Requests, t \in Terms : Receive(r, t)
    \/ \E r \in Requests, rep \in Replies : CatalogReply(r, rep)
    \/ \E r \in Requests : UpsertSettled(r)
    \/ \E r \in Requests : UpsertRejected(r)

Spec == Init /\ [][Next]_vars

\* The same program, with the catalog answering the one-item responses of
\* FieldReplies to searches for "jazz".
NextFields ==
    \/ Tick
    \/ \E r \in Requests : Receive(r, "jazz")
    \/ \E r \in Requests, rep \in FieldReplies : CatalogReply(r, rep)
    \/ \E r \in Requests : UpsertSettled(r)
    \/ \E r \in Requests : UpsertRejected(r)

SpecFields == Init /\ [][NextFields]_vars

(* --------------------------- the Search page -------------------------- *)

\* Longest session history the model follows.
MaxHistory == 3

\* Values of the search input and of the q parameter of a URL: nothing, a
\* blank, and two terms.
PageTerms == {"", " ", "a", "b"}

\* term.trim()
Trim(t) == IF t = " " THEN "" ELSE t

\* The number the next fetch of the page gets.
NextCall == Cardinality({n \in Searches : calls[n].at # "none"}) + 1

\* The fetches of the page that have not come to an end in searchAPI.
Pending == {n \in Searches : calls[n].at \in {"fetch", "json"}}

\* abortController.abort() when abortController is not null
\* (part_001:51-54): the signal of that controller is aborted.
AbortCurrent(cs, controller) ==
    IF controller = 0 THEN cs ELSE [cs EXCEPT ![controller].aborted = TRUE]

\* searchAPI(t) up to its first await (part_001:92-104), on calls as the
\* handler left them: nothing for a blank term; else a new controller is
\* put in abortController, loading is set and the fetch is made.  The
\* controller that was in abortController is not aborted here.
SearchAPI(t, cs) ==
    IF Trim(t) = ""
    THEN /\ calls' = cs
         /\ UNCHANGED <<abortController, loading>>
    ELSE /\ NextCall \in Searches
         /\ calls' = [cs EXCEPT ![NextCall] = [term |-> t, at |-> "fetch", aborted |-> FALSE]]
         /\ abortController' = NextCall
         /\ loading' = TRUE

\* window.history.replaceState / pushState with q (part_001:25-44, 57-70).
ReplaceState(q) == history' = [history EXCEPT ![position] = q] /\ UNCHANGED position

PushState(q) ==
    /\ position < MaxHistory
    /\ history' = Append(SubSeq(history, 1, position), q)
    /\ position' = position + 1

\* The page is opened at a URL whose q parameter is q, and its mount effect
\* runs (part_001:145-151).  The effect of part_001:77-81 changes nothing
\* then: loading is false.
Mount(q) ==
    /\ ~mounted
    /\ mounted' = TRUE
    /\ history' = <<q>>
    /\ IF q # ""
       THEN searchTerm' = q /\ SearchAPI(q, calls)
       ELSE UNCHANGED <<searchTerm, calls, abortController, loading>>
    /\ UNCHANGED <<results, hasSearched, position>>
    /\ UNCHANGED serverVars

\* The user changes the input to t: handleSearchTermChange(t)
\* (part_001:47-74), and the effect of part_001:77-81, which sets loading
\* false for a blank term, as the handler did already.
HandleSearchTermChange(t) ==
    /\ mounted
    /\ t # searchTerm
    /\ searchTerm' = t
    /\ ReplaceState(Trim(t))
    /\ IF Trim(t) = ""
       THEN /\ calls' = AbortCurrent(calls, abortController)
            /\ abortController' = 0
            /\ loading' = FALSE
            /\ results' = 0
            /\ hasSearched' = FALSE
       ELSE /\ SearchAPI(Trim(t), AbortCurrent(calls, abortController))
            /\ UNCHANGED <<results, hasSearched>>
    /\ UNCHANGED mounted
    /\ UNCHANGED serverVars

\* The user submits the form: handleSearch (part_001:135-142).  With a
\* blank term it does nothing.
HandleSearch ==
    /\ mounted
    /\ Trim(searchTerm) # ""
    /\ PushState(Trim(searchTerm))
    /\ SearchAPI(searchTerm, calls)
    /\ UNCHANGED <<mounted, searchTerm, results, hasSearched>>
    /\ UNCHANGED serverVars

\* The browser went to entry `to` of the session history and fired
\* popstate: handlePopState (part_001:154-165), and the effect of
\* part_001:77-81.
HandlePopState(to) ==
    /\ mounted
    /\ to \in DOMAIN history
    /\ position' = to
    /\ searchTerm' = history[to]
    /\ IF Trim(history[to]) # ""
       THEN /\ SearchAPI(history[to], calls)
            /\ UNCHANGED <<results, hasSearched>>
       ELSE /\ results' = 0
            /\ hasSearched' = FALSE
            /\ loading' = FALSE
            /\ UNCHANGED <<calls, abortController>>
    /\ UNCHANGED <<mounted, history>>
    /\ UNCHANGED serverVars

\* handleGoBack, handleGoForward and the browser's own buttons
\* (part_001:84-90).
GoBack == position > 1 /\ HandlePopState(position - 1)

GoForward == position < Len(history) /\ HandlePopState(position + 1)

\* The catch of searchAPI for an error that is not an AbortError
\* (part_001:124-132).
SearchAPICatchKeepsLoading ==
    /\ results' = 0
    /\ UNCHANGED <<loading, hasSearched>>

SearchAPICatch ==
    /\ results' = 0
    /\ loading' = FALSE
    /\ UNCHANGED hasSearched

\* The fetch of call n settles, its signal not aborted (part_001:102-115):
\* with an ok response, and searchAPI awaits response.json(); with a
\* response that is not ok, or rejected by the network, and the catch runs.
FetchSettled(n, how) ==
    /\ calls[n].at = "fetch"
    /\ ~calls[n].aborted
    /\ IF how = "ok"
       THEN /\ calls' = [calls EXCEPT ![n].at = "json"]
            /\ UNCHANGED <<results, loading, hasSearched>>
       ELSE /\ calls' = [calls EXCEPT ![n].at = "done"]
            /\ SearchAPICatch
    /\ UNCHANGED <<mounted, searchTerm, abortController, history, position>>
    /\ UNCHANGED serverVars

\* response.json() of call n settles, its signal not aborted
\* (part_001:115-123): with the data, which is put in results, or rejected,
\* and the catch runs.
JsonSettled(n, how) ==
    /\ calls[n].at = "json"
    /\ ~calls[n].aborted
    /\ calls' = [calls EXCEPT ![n].at = "done"]
    /\ IF how = "valid"
       THEN /\ results' = n
            /\ hasSearched' = TRUE
            /\ loading' = FALSE
       ELSE SearchAPICatch
    /\ UNCHANGED <<mounted, searchTerm, abortController, history, position>>
    /\ UNCHANGED serverVars

\* Call n, whose signal was aborted while it awaited, goes on: the await
\* rejects with an AbortError, or the check of signal.aborted is true, and
\* searchAPI returns without setting anything (part_001:109, 119, 126-128).
Aborted(n) ==
    /\ n \in Pending
    /\ calls[n].aborted
    /\ calls' = [calls EXCEPT ![n].at = "dropped"]
    /\ UNCHANGED <<mounted, searchTerm, results, loading, hasSearched, abortController,
                   history, position>>
    /\ UNCHANGED serverVars

NextPage ==
    \/ \E q \in PageTerms : Mount(q)
    \/ \E t \in PageTerms : HandleSearchTermChange(t)
    \/ HandleSearch
    \/ GoBack
    \/ GoForward
    \/ \E n \in Searches, how \in {"ok", "notOk", "rejected"} : FetchSettled(n, how)
    \/ \E n \in Searches, how \in {"valid", "invalid"} : JsonSettled(n, how)
    \/ \E n \in Searches : Aborted(n)

SpecPage == Init /\ [][NextPage]_vars

\* Call n of the page goes on in searchAPI: its fetch or its
\* response.json() settles, or, aborted, it returns.
Settle(n) ==
    \/ \E how \in {"ok", "notOk", "rejected"} : FetchSettled(n, how)
    \/ \E how \in {"valid", "invalid"} : JsonSettled(n, how)
    \/ Aborted(n)

\* The page when every fetch it makes eventually completes, fails or is
\* aborted, and the continuation of searchAPI then runs.
FairSpecPage == SpecPage /\ \A n \in Searches : WF_vars(Settle(n))

(* ---------------------- vocabulary of the properties ------------------ *)

Done(r) == pc[r] = "done"

\* searchAndSave was invoked for request r.
Searched(r) == fetches[r] > 0

\* searchAndSave of request r has come to a result or an exception.
Ended(r) == Done(r) /\ Searched(r)

\* The reply of request r is a successful one whose results is an array.
GotArray(r) == reply[r] \in ArrayReplies

\* The positions of the findOneAndUpdate calls of r the store settled, and
\* of those it rejected.
Settled(r) == {j \in DOMAIN attempts[r] : attempts[r][j].ok}

Rejected(r) == {j \in DOMAIN attempts[r] : ~attempts[r][j].ok}

\* The position among the settled calls of r of the settled call j.
Rank(r, j) == Cardinality({k \in Settled(r) : k <= j})

\* Document doc carries what update set: every key of update that is not
\* undefined.
Carries(doc, update) ==
    \A f \in DOMAIN update : IsUndefined(update, f) \/ doc[f] = update[f]

\* Call j of request r was made for item j of the reply, normalized at the
\* time the call was made.
ForItem(r, j) ==
    /\ j \in DOMAIN Iterated(reply[r])
    /\ attempts[r][j].update =
          Normalize(Iterated(reply[r])[j], attempts[r][j].update.searchDate)

(* -------------------------------- C1 ---------------------------------- *)

\* C1: for a non-empty term and a catalog response whose results is an array
\* of N items, searchAndSave returns a list of exactly N minus the number of
\* rejected upserts records; and searchAndSave never throws to its caller,
\* whatever the catalog answered and whatever the store did.
C1_LengthAndNoEscape ==
    \A r \in Requests :
        /\ ~outcome[r].threw
        /\ (Ended(r) /\ GotArray(r)) =>
              Len(outcome[r].value) =
                  Len(reply[r].elems) - Cardinality(Rejected(r))

\* Two items, one rejected and one stored: a list of one record is returned.
C1_Witness ==
    \E r \in Requests :
        /\ Ended(r) /\ GotArray(r)
        /\ Len(reply[r].elems) = 2
        /\ Cardinality(Rejected(r)) = 1
        /\ Len(outcome[r].value) = 1

(* -------------------------------- C2 ---------------------------------- *)

\* C2: when the store rejects the upsert of item k, every item after k (and
\* before it) is still normalized and upserted, every settled upsert has
\* its record in the returned list, the rejected ones add nothing to the
\* list, and the call returns instead of throwing.
C2_PartialFailureIsolated ==
    \A r \in Requests :
        (Ended(r) /\ Rejected(r) # {}) =>
            /\ ~outcome[r].threw
            /\ Len(attempts[r]) = Len(Iterated(reply[r]))
            /\ \A j \in DOMAIN attempts[r] : ForItem(r, j)
            /\ Len(outcome[r].value) = Cardinality(Settled(r))
            /\ \A j \in Settled(r) :
                  \E i \in DOMAIN outcome[r].value :
                      Carries(outcome[r].value[i], attempts[r][j].update)

\* The first of two items is rejected; the second is upserted and returned.
C2_Witness ==
    \E r \in Requests :
        /\ Ended(r)
        /\ Len(Iterated(reply[r])) = 2
        /\ Rejected(r) = {1}
        /\ Settled(r) = {2}
        /\ Len(outcome[r].value) = 1
        /\ outcome[r].value[1] \in store

(* -------------------------------- C3 ---------------------------------- *)

\* C3: the returned list is the records of the items whose upsert settled,
\* in catalog order: upsert j is the one of item j, and the record of the
\* settled upsert j stands in the list at the rank of j among the settled.
C3_CatalogOrder ==
    \A r \in Requests :
        (Ended(r) /\ ~ThrowsBeforeLoop(reply[r])) =>
            /\ Len(attempts[r]) = Len(Iterated(reply[r]))
            /\ Len(outcome[r].value) = Cardinality(Settled(r))
            /\ \A j \in Settled(r) :
                  /\ ForItem(r, j)
                  /\ Carries(outcome[r].value[Rank(r, j)], attempts[r][j].update)

\* Two items with different ids, both upserted: returned in catalog order.
C3_Witness ==
    \E r \in Requests :
        /\ Ended(r) /\ GotArray(r)
        /\ Settled(r) = {1, 2}
        /\ outcome[r].value[1].id = RecordId(reply[r].elems[1], 0)
        /\ outcome[r].value[2].id = RecordId(reply[r].elems[2], 0)
        /\ outcome[r].value[1].id # outcome[r].value[2].id

(* -------------------------------- C4 ---------------------------------- *)

\* C4: when the catalog answers with a status that is not ok, searchAndSave
\* returns the empty list without throwing, in the same step, and makes no
\* findOneAndUpdate call: the call leaves the store as it is.
C4_NotOkReturnsEmpty ==
    \A r \in Requests :
        (reply[r].net = "settled" /\ ~reply[r].ok) =>
            /\ Ended(r)
            /\ outcome[r] = Returned(<<>>)
            /\ attempts[r] = <<>>

\* A 503 whose body even holds a results array: nothing returned or stored.
C4_Witness ==
    \E r \in Requests :
        /\ reply[r].status = 503
        /\ reply[r].results = "array"
        /\ Ended(r)
        /\ outcome[r].value = <<>>
        /\ attempts[r] = <<>>

(* -------------------------------- C5 ---------------------------------- *)

\* C5: when the body of a successful reply has no results field, or one that
\* is not an array of items (null, an object, a string), searchAndSave
\* returns the empty list and makes no write to the store.
C5_MalformedResultsFatal ==
    \A r \in Requests :
        (reply[r] \in MalformedReplies \cup StringReplies) =>
            /\ attempts[r] = <<>>
            /\ Ended(r) => outcome[r] = Returned(<<>>)

(* -------------------------------- C6 ---------------------------------- *)

\* C6: a GET /search/ with an empty search term is answered 400 with the
\* body {success: false, error: "searchWord parameter is required"}, and
\* searchAndSave is not invoked: no outbound GET, no write to the store.
C6_EmptyTermBadRequest ==
    \A r \in Requests :
        (Done(r) /\ term[r] = "") =>
            /\ responses[r] = <<BadRequest>>
            /\ fetches[r] = 0
            /\ attempts[r] = <<>>

(* -------------------------------- C7 ---------------------------------- *)

\* C7: a request with a non-empty term gets exactly one response, sent when
\* searchAndSave has ended: status 200 and, as body, the list searchAndSave
\* returned, which is the empty list when the catalog call failed or the
\* catalog returned no item.
C7_OneResponseWithTheList ==
    \A r \in Requests :
        /\ (~Done(r)) => responses[r] = <<>>
        /\ (Done(r) /\ term[r] # "") =>
              /\ responses[r] = <<[status |-> 200, body |-> outcome[r].value]>>
              /\ outcome[r].value = savedResults[r]
              /\ (ThrowsBeforeLoop(reply[r]) \/ Iterated(reply[r]) = <<>>) =>
                    responses[r][1].body = <<>>

\* One request answered 200 [] after a 503 of the catalog, another answered
\* 200 with a record.
C7_Witness ==
    \E r, q \in Requests :
        /\ Done(r) /\ reply[r].status = 503
        /\ responses[r] = <<[status |-> 200, body |-> <<>>]>>
        /\ Done(q) /\ term[q] # ""
        /\ Len(responses[q]) = 1
        /\ responses[q][1].status = 200
        /\ Len(responses[q][1].body) = 1

(* -------------------------------- C8 ---------------------------------- *)

\* A failure of the catalog or of the store happened in request r.
Failed(r) == Searched(r) /\ reply[r] # NoReply /\
             (ThrowsBeforeLoop(reply[r]) \/ Rejected(r) # {})

\* C8: the endpoint answers 500 with {success: false, error: "Internal
\* server error"} exactly when searchAndSave threw into the handler; a
\* failure of the catalog or of the store never does that, so such a request
\* is never answered 500, and whatever failed before, the server still
\* takes the next request.
C8_ServerErrorOnlyOnEscape ==
    /\ \A r \in Requests :
          /\ \A i \in DOMAIN responses[r] :
                /\ responses[r][i].status = 500 <=> outcome[r].threw
                /\ responses[r][i].status = 500 => responses[r][i] = ServerError
          /\ Failed(r) =>
                /\ ~outcome[r].threw
                /\ \A i \in DOMAIN responses[r] : responses[r][i].status = 200
    /\ \A r \in Requests :
          (pc[r] = "idle" /\ \A q \in Requests : q < r => pc[q] # "idle") =>
              ENABLED Receive(r, "jazz")

\* A request whose catalog call failed and a request with a rejected upsert
\* were both answered 200, and a request that came after a failed one was
\* served its record.
C8_Witness ==
    \E r, q \in Requests :
        /\ r < q /\ r \notin overlap[q]
        /\ Done(r) /\ Failed(r)
        /\ responses[r][1].status = 200
        /\ Done(q) /\ Rejected(q) # {} /\ Settled(q) # {}
        /\ responses[q][1].status = 200
        /\ Len(responses[q][1].body) = 1

(* -------------------------------- C9 ---------------------------------- *)

\* Request r overlapped no other request.
Alone(r) == overlap[r] = {} /\ \A q \in Requests : r \notin overlap[q]

\* r1 and r2 are two calls of searchAndSave, one after the other with the
\* same term and the same catalog response, and no other call in between
\* or beside them.
TwoCalls(r1, r2) ==
    /\ r2 = r1 + 1
    /\ Ended(r1) /\ Ended(r2)
    /\ Alone(r1) /\ Alone(r2)
    /\ term[r1] = term[r2]
    /\ reply[r1] = reply[r2]

\* The ids of the records request r wrote.
WrittenIds(r) == {attempts[r][j].update.id : j \in Settled(r)}

\* The lists of r1 and r2 agree pairwise on all but searchDate, which is
\* not earlier in r2, and r2 wrote no id r1 had not written.
SameButDate(r1, r2) ==
    LET v1 == outcome[r1].value
        v2 == outcome[r2].value
    IN  /\ Len(v1) = Len(v2)
        /\ \A i \in DOMAIN v1 :
              /\ \A f \in DOMAIN v1[i] \ {"searchDate"} : v1[i][f] = v2[i][f]
              /\ v1[i].searchDate <= v2[i].searchDate
        /\ WrittenIds(r2) \subseteq WrittenIds(r1)
        /\ WrittenIds(r1) \subseteq {d.id : d \in store}

\* C9 as claimed, for every catalog response, in its most favourable
\* reading: the store settles every upsert of both calls, and a searchDate
\* of the same millisecond counts as later.
C9_IdempotentForEveryResponse ==
    \A r1, r2 \in Requests :
        (TwoCalls(r1, r2) /\ Rejected(r1) = {} /\ Rejected(r2) = {}) =>
            SameButDate(r1, r2)

\* The item has a trackId or a collectionId the code takes as its id.
HasNaturalId(item) == TruthyNum(item, "trackId") \/ TruthyNum(item, "collectionId")

\* No two upserts of request r were for the same id.
DistinctIds(r) ==
    \A j, k \in DOMAIN attempts[r] :
        attempts[r][j].update.id = attempts[r][k].update.id => j = k

\* C9 (amended): calling searchAndSave twice, one call after the other, with
\* the catalog response unchanged, every item of which has a trackId or a
\* collectionId and no two items of which share an id, and with every
\* upsert of both calls settled, returns two lists whose records agree
\* pairwise on id, kind, artistName, collectionName, collectionViewUrl and
\* image, with searchDate not earlier in the second, and the second call
\* adds no id to the store.
C9_IdempotentWithNaturalIds ==
    \A r1, r2 \in Requests :
        ( /\ TwoCalls(r1, r2)
          /\ Rejected(r1) = {} /\ Rejected(r2) = {}
          /\ \A j \in DOMAIN Iterated(reply[r1]) : HasNaturalId(Iterated(reply[r1])[j])
          /\ DistinctIds(r1) /\ DistinctIds(r2) ) =>
            SameButDate(r1, r2)

\* Two items, one of them without kind and artwork, upserted by two calls a
\* millisecond apart: the same records but for the later searchDate.
C9_Witness ==
    \E r1, r2 \in Requests :
        /\ TwoCalls(r1, r2)
        /\ reply[r1].elems = <<ItemBare, ItemTrack>>
        /\ Settled(r1) = {1, 2} /\ Settled(r2) = {1, 2}
        /\ outcome[r1].value[1].searchDate < outcome[r2].value[1].searchDate
        /\ outcome[r1].value[1].id = outcome[r2].value[1].id
        /\ outcome[r1].value[2].image = outcome[r2].value[2].image
        /\ {d.id : d \in store} = {1, 2}

(* -------------------------------- C10 --------------------------------- *)

\* Upsert j of request r is the last one of r the store settled for its id.
LastFor(r, j) ==
    /\ j \in Settled(r)
    /\ \A k \in Settled(r) :
          attempts[r][k].update.id = attempts[r][j].update.id => k <= j

\* C10: after two calls, one after the other, that each upserted an item
\* with the same id but different field values, the store holds exactly one
\* record for that id, and each of its fields is the one normalized from the
\* later item: the item's value, and, for a field the later item lacks, what
\* a record made from that item alone has there.  Stated for items that
\* carry their id (a trackId or a collectionId).
C10_LastWriteWins ==
    \A r1, r2 \in Requests :
        ( /\ r2 = r1 + 1
          /\ Ended(r1) /\ Ended(r2)
          /\ GotArray(r1) /\ GotArray(r2)
          /\ Alone(r1) /\ Alone(r2)
          /\ \A q \in Requests : q > r2 => pc[q] = "idle" ) =>
            \A j1 \in Settled(r1), j2 \in Settled(r2) :
                LET u1 == attempts[r1][j1].update
                    u2 == attempts[r2][j2].update
                IN  ( /\ HasNaturalId(reply[r1].elems[j1])
                      /\ HasNaturalId(reply[r2].elems[j2])
                      /\ u1.id = u2.id
                      /\ \E f \in MutableFields \ {"searchDate"} : u1[f] # u2[f]
                      /\ LastFor(r2, j2) ) =>
                        Matching(store, u2.id) = {InsertedDoc(u2)}

(* -------------------------------- C11 --------------------------------- *)

\* C11: in every reachable state, under every interleaving of requests
\* (concurrent requests upserting the same id, and items sharing an id
\* inside one response, included), no two stored records have the same id.
C11_IdsUnique ==
    \A d1, d2 \in store : d1.id = d2.id => d1 = d2

\* Two overlapping requests, one of them with two items that share an id,
\* had three upserts of id 1 settled; the store holds one record of id 1.
C11_Witness ==
    \E r, q \in Requests :
        /\ r \in overlap[q]
        /\ Done(r) /\ Done(q)
        /\ reply[r].elems = <<ItemFull, ItemBare>>
        /\ reply[q].elems = <<ItemBare>>
        /\ Settled(r) = {1, 2} /\ Settled(q) = {1}
        /\ Cardinality(Matching(store, 1)) = 1

(* -------------------------------- C12 --------------------------------- *)

\* The ids of the stored records.
StoreIds == {d.id : d \in store}

\* The step is one in which the store settled an upsert of request r.
SettledStep(r) ==
    /\ Len(attempts'[r]) = Len(attempts[r]) + 1
    /\ attempts'[r][Len(attempts'[r])].ok

\* C12: records are never deleted: no step takes an id out of the store;
\* and an upsert of an id the store already has (put there, for one, by a
\* search for an unrelated term) updates that record in place: the store
\* has as many records after it as before, one of them of that id, and it
\* carries what the upsert set.
C12_NeverDeleted ==
    [][ /\ StoreIds \subseteq StoreIds'
        /\ \A r \in Requests :
              (SettledStep(r) /\ Matching(store, searchResult[r].id) # {}) =>
                  /\ Cardinality(store') = Cardinality(store)
                  /\ \E e \in store' :
                        /\ Matching(store', searchResult[r].id) = {e}
                        /\ Carries(e, searchResult[r]) ]_vars

\* A search for "jazz" created the record of id 1 and, after it, a search
\* for "rock" returned another item of id 1: the store holds one record of
\* id 1, with the artist of the later item, beside the record of id 2.
C12_Witness ==
    \E r, q \in Requests :
        /\ r < q /\ r \notin overlap[q]
        /\ Done(r) /\ Done(q)
        /\ term[r] = "jazz" /\ term[q] = "rock"
        /\ reply[r].elems = <<ItemFull, ItemTrack>>
        /\ reply[q].elems = <<ItemBare>>
        /\ Settled(r) = {1, 2} /\ Settled(q) = {1}
        /\ StoreIds = {1, 2}
        /\ \E e \in store : Matching(store, 1) = {e} /\ e.artistName = "B"

(* -------------------------------- C13 --------------------------------- *)

\* Upsert j of request r is the only one of r the store settled for its id.
OnlyFor(r, j) ==
    /\ j \in Settled(r)
    /\ \A k \in Settled(r) :
          attempts[r][k].update.id = attempts[r][j].update.id => k = j

\* C13: of two concurrent requests, neither raises; when they upsert
\* different ids, both records end up stored and each request returns its
\* own record; when they upsert the same id, the store ends with exactly
\* one record of that id, all of whose fields come from one of the two
\* writes: it is the record one of the two items alone makes.  Stated for
\* items that carry their id (a trackId or a collectionId).
C13_ConcurrentUpserts ==
    \A r, q \in Requests :
        (r \in overlap[q] /\ Done(r) /\ Done(q) /\ GotArray(r) /\ GotArray(q)) =>
            /\ ~outcome[r].threw /\ ~outcome[q].threw
            /\ \A j \in Settled(r), k \in Settled(q) :
                  LET u == attempts[r][j].update
                      v == attempts[q][k].update
                  IN  ( /\ HasNaturalId(reply[r].elems[j])
                        /\ HasNaturalId(reply[q].elems[k])
                        /\ OnlyFor(r, j) /\ OnlyFor(q, k) ) =>
                          IF u.id # v.id
                          THEN /\ {u.id, v.id} \subseteq StoreIds
                               /\ Carries(outcome[r].value[Rank(r, j)], u)
                               /\ Carries(outcome[q].value[Rank(q, k)], v)
                          ELSE \E e \in {InsertedDoc(u), InsertedDoc(v)} :
                                   Matching(store, u.id) = {e}

(* -------------------------------- C14 --------------------------------- *)

\* The step writes searchDate as the upsert of request r has it, over the
\* stored one; `monotone` says for which requests it is not to be earlier.
WritesSearchDate(r, monotone) ==
    SettledStep(r) =>
        \E e \in store' :
            /\ Matching(store', searchResult[r].id) = {e}
            /\ e.searchDate = searchResult[r].searchDate
            /\ monotone =>
                  \A d \in Matching(store, searchResult[r].id) :
                      d.searchDate <= e.searchDate

\* C14 as claimed: over any sequence of requests, concurrent ones included,
\* each successful upsert of an id overwrites searchDate, and the stored
\* searchDate of an id never moves backwards.
C14_SearchDateNeverBackwards ==
    [][\A r \in Requests : WritesSearchDate(r, TRUE)]_vars

\* C14 (amended): each successful upsert of an id overwrites the stored
\* searchDate with the time at which its request built the record, not the
\* time the id was first seen; no other step changes a stored record; and
\* the upsert of a request that overlapped no other request never moves the
\* stored searchDate of an id backwards.
C14_SearchDateOfLastUpsert ==
    [][ /\ \A r \in Requests : WritesSearchDate(r, Alone(r))
        /\ (\A r \in Requests : ~SettledStep(r)) => store' = store ]_vars

\* Two requests, one after the other, upserted id 1 a millisecond apart:
\* the store has the later searchDate.
C14_Witness ==
    \E r, q \in Requests :
        /\ r < q /\ Alone(r) /\ Alone(q)
        /\ Done(r) /\ Done(q)
        /\ \E j \in Settled(r), k \in Settled(q) :
              /\ attempts[r][j].update.id = 1
              /\ attempts[q][k].update.id = 1
              /\ attempts[r][j].update.searchDate < attempts[q][k].update.searchDate
              /\ \E e \in store :
                    /\ Matching(store, 1) = {e}
                    /\ e.searchDate = attempts[q][k].update.searchDate

(* -------------------------------- C15 --------------------------------- *)

\* The reply of request r is one whose results is an array.
ArrayResults(r) == reply[r].results = "array"

\* The update of call j of request r has the synthetic id: the reading of
\* the clock, which is also its searchDate (part_000:34, 40).
SyntheticId(r, j) == attempts[r][j].update.id = attempts[r][j].update.searchDate

\* C15 as claimed: the record id is the item's trackId when the item has
\* one, otherwise its collectionId when it has one, otherwise the synthetic
\* id, which is used only when both are absent.
C15_IdWhenPresent ==
    \A r \in Requests :
        ArrayResults(r) =>
            \A j \in DOMAIN attempts[r] :
                LET item == reply[r].elems[j]
                    id == attempts[r][j].update.id
                IN  /\ "trackId" \in DOMAIN item => id = item.trackId
                    /\ ("trackId" \notin DOMAIN item /\ "collectionId" \in DOMAIN item) =>
                          id = item.collectionId
                    /\ SyntheticId(r, j) <=>
                          ("trackId" \notin DOMAIN item /\ "collectionId" \notin DOMAIN item)

\* C15 (amended): the record id is the item's trackId when the item has one
\* that is not 0, otherwise its collectionId when it has one that is not 0,
\* otherwise the synthetic id, which is used exactly when each of the two is
\* absent or 0; and a settled upsert stores a record of that id.
C15_IdWhenNonZero ==
    \A r \in Requests :
        ArrayResults(r) =>
            \A j \in DOMAIN attempts[r] :
                LET item == reply[r].elems[j]
                    id == attempts[r][j].update.id
                    hasTrack == "trackId" \in DOMAIN item /\ item.trackId # 0
                    hasCollection == "collectionId" \in DOMAIN item /\ item.collectionId # 0
                IN  /\ hasTrack => id = item.trackId
                    /\ (~hasTrack /\ hasCollection) => id = item.collectionId
                    /\ SyntheticId(r, j) <=> (~hasTrack /\ ~hasCollection)
                    /\ j \in Settled(r) => id \in StoreIds

\* One request stored an item with trackId 1 and collectionId 2 under id 1,
\* the other an item with trackId 0 and collectionId 2 under id 2.
C15_Witness ==
    \E r, q \in Requests :
        /\ Done(r) /\ Done(q)
        /\ reply[r].elems = <<[artistName |-> "A", trackId |-> 1, collectionId |-> 2]>>
        /\ reply[q].elems = <<[artistName |-> "A", trackId |-> 0, collectionId |-> 2]>>
        /\ Settled(r) = {1} /\ Settled(q) = {1}
        /\ attempts[r][1].update.id = 1
        /\ attempts[q][1].update.id = 2
        /\ StoreIds = {1, 2}

(* -------------------------------- C16 --------------------------------- *)

\* Field f of the update of call j of request r, and of the record the call
\* returned once the store settled it, is v.
FieldIs(r, j, f, v) ==
    /\ attempts[r][j].update[f] = v
    /\ (j \in Settled(r) /\ Done(r)) => outcome[r].value[Rank(r, j)][f] = v

\* C16 as claimed: collectionName is the item's collectionName if present,
\* else its trackName (if present), else the empty string; and
\* collectionViewUrl is the item's collectionViewUrl if present, else its
\* trackViewUrl, else the empty string.
C16_StringWhenPresent ==
    \A r \in Requests :
        ArrayResults(r) =>
            \A j \in DOMAIN attempts[r] :
                LET item == reply[r].elems[j]
                    Expected(a, b) ==
                        IF a \in DOMAIN item THEN item[a]
                        ELSE IF b \in DOMAIN item THEN item[b]
                        ELSE ""
                IN  /\ FieldIs(r, j, "collectionName", Expected("collectionName", "trackName"))
                    /\ FieldIs(r, j, "collectionViewUrl",
                               Expected("collectionViewUrl", "trackViewUrl"))

\* C16 (amended): collectionName is the item's collectionName if present
\* and not empty, else its trackName if present and not empty, else the
\* empty string; and collectionViewUrl likewise from collectionViewUrl and
\* trackViewUrl; in the update and in the record returned for it.
C16_StringWhenNotEmpty ==
    \A r \in Requests :
        ArrayResults(r) =>
            \A j \in DOMAIN attempts[r] :
                LET item == reply[r].elems[j]
                    Expected(a, b) ==
                        IF a \in DOMAIN item /\ item[a] # "" THEN item[a]
                        ELSE IF b \in DOMAIN item /\ item[b] # "" THEN item[b]
                        ELSE ""
                IN  /\ FieldIs(r, j, "collectionName", Expected("collectionName", "trackName"))
                    /\ FieldIs(r, j, "collectionViewUrl",
                               Expected("collectionViewUrl", "trackViewUrl"))

\* An item with an empty collectionName and a trackName was returned with
\* the trackName; an item with only a trackViewUrl, with that as its link
\* and '' as its name.
C16_Witness ==
    \E r, q \in Requests :
        /\ Done(r) /\ Done(q)
        /\ reply[r].elems = <<[trackId |-> 3, collectionName |-> "", trackName |-> "T"]>>
        /\ reply[q].elems = <<[trackId |-> 4, trackViewUrl |-> "tv"]>>
        /\ Settled(r) = {1} /\ Settled(q) = {1}
        /\ outcome[r].value[1].collectionName = "T"
        /\ outcome[q].value[1].collectionViewUrl = "tv"
        /\ outcome[q].value[1].collectionName = ""

(* -------------------------------- C17 --------------------------------- *)

\* C17: the image of a record is the item's artworkUrl600 if the item has
\* one, else its artworkUrl100, else the empty string, in the record
\* returned to the caller, which is the record as stored by the upsert, on
\* first insert and on update of an existing id alike.  In its most
\* favourable reading: an empty artwork URL counts as absent.
C17_ImageFallback ==
    \A r \in Requests :
        (Done(r) /\ ArrayResults(r)) =>
            \A j \in Settled(r) :
                LET item == reply[r].elems[j]
                IN  outcome[r].value[Rank(r, j)].image =
                        IF TruthyStr(item, "artworkUrl600") THEN item.artworkUrl600
                        ELSE IF TruthyStr(item, "artworkUrl100") THEN item.artworkUrl100
                        ELSE ""

(* -------------------------------- C18 --------------------------------- *)

\* What invocation r of searchAndSave holds between its steps.
Locals(r) ==
    <<pc[r], reply[r], idx[r], searchResult[r], savedResults[r], attempts[r], outcome[r]>>

\* The list invocation r has built so far.
ListOf(r) == IF Done(r) THEN outcome[r].value ELSE savedResults[r]

\* Invocation r issued one GET; it made its upsert attempts in the order of
\* the items, attempt j for item j, so no item was attempted twice; and
\* after a failed catalog request it made none and came to [].
OneBatch(r) ==
    /\ fetches[r] <= 1
    /\ pc[r] \in {"fetch", "upsert"} => fetches[r] = 1
    /\ Len(attempts[r]) <= Len(Iterated(reply[r]))
    /\ \A j \in DOMAIN attempts[r] : ForItem(r, j)
    /\ pc[r] = "upsert" => idx[r] = Len(attempts[r]) + 1
    /\ (reply[r] # NoReply /\ ThrowsBeforeLoop(reply[r])) =>
          Done(r) /\ attempts[r] = <<>> /\ outcome[r] = Returned(<<>>)

\* C18: each searchAndSave invocation issues exactly one outbound catalog
\* GET and at most one upsert attempt per catalog item, and retries neither
\* a failed catalog request nor a failed upsert; and invocations are
\* independent but for the store: a step changes what one invocation holds
\* and nothing of another, and the record an upsert adds to the list is
\* what the store, as it is then, makes of the invocation's own update.
C18_OneIndependentBatch ==
    /\ [](\A r \in Requests : OneBatch(r))
    /\ [][\A r \in Requests :
            /\ \A q \in Requests \ {r} :
                  Locals(r)' # Locals(r) => Locals(q)' = Locals(q)
            /\ SettledStep(r) =>
                  ListOf(r)' = Append(ListOf(r), SavedDoc(store, searchResult[r]))
            /\ (Len(attempts'[r]) = Len(attempts[r]) + 1 /\ ~SettledStep(r)) =>
                  ListOf(r)' = ListOf(r)]_vars

\* One invocation came to [] after a 503 without an upsert attempt; the
\* other made one attempt for each of its two items, the first rejected.
C18_Witness ==
    \E r, q \in Requests :
        /\ Ended(r) /\ Ended(q)
        /\ reply[r].status = 503 /\ fetches[r] = 1 /\ attempts[r] = <<>>
        /\ reply[q].elems = <<ItemFull, ItemTrack>>
        /\ fetches[q] = 1
        /\ Len(attempts[q]) = 2 /\ Rejected(q) = {1} /\ Settled(q) = {2}

(* -------------------------------- C19 --------------------------------- *)

\* r1 and r2 are two calls, one after the other, with the same catalog
\* response, an array, and every upsert of both settled.
TwoSettledCalls(r1, r2) ==
    /\ TwoCalls(r1, r2)
    /\ GotArray(r1)
    /\ Rejected(r1) = {} /\ Rejected(r2) = {}

\* C19 as claimed: when an item has neither trackId nor collectionId, two
\* successive calls with the same catalog response give it two different
\* ids, and the store has a record of each.
C19_SyntheticIdsDiffer ==
    \A r1, r2 \in Requests :
        TwoSettledCalls(r1, r2) =>
            \A j \in DOMAIN attempts[r1] :
                ~HasNaturalId(reply[r1].elems[j]) =>
                    /\ attempts[r1][j].update.id # attempts[r2][j].update.id
                    /\ {attempts[r1][j].update.id, attempts[r2][j].update.id}
                          \subseteq StoreIds

\* C19 (amended): when an item has neither trackId nor collectionId, two
\* successive calls with the same catalog response that build its record at
\* different readings of the millisecond clock give it two different ids,
\* and the store has a record of each; two calls that build it at the same
\* reading give it the same id, and the second updates the record of the
\* first.
C19_SyntheticIdsDifferAcrossTicks ==
    \A r1, r2 \in Requests :
        TwoSettledCalls(r1, r2) =>
            \A j \in DOMAIN attempts[r1] :
                ~HasNaturalId(reply[r1].elems[j]) =>
                    LET u1 == attempts[r1][j].update
                        u2 == attempts[r2][j].update
                    IN  /\ u1.id # u2.id <=> u1.searchDate # u2.searchDate
                        /\ {u1.id, u2.id} \subseteq StoreIds
                        /\ Cardinality(Matching(store, u1.id)) = 1
                        /\ Cardinality(Matching(store, u2.id)) = 1

\* Two calls a millisecond apart for an item without ids: ids 10 and 11,
\* and a record of each in the store.
C19_Witness ==
    \E r1, r2 \in Requests :
        /\ TwoSettledCalls(r1, r2)
        /\ reply[r1].elems = <<ItemNoId>>
        /\ attempts[r1][1].update.id = EpochStart
        /\ attempts[r2][1].update.id = EpochStart + 1
        /\ StoreIds = {EpochStart, EpochStart + 1}
        /\ Cardinality(store) = 2

(* -------------------------------- C20 --------------------------------- *)

\* The step is one in which call n of the page comes to its end in
\* searchAPI.
EndsCall(n) == n \in Pending /\ calls'[n].at \in {"done", "dropped"}

\* C20: whatever the typing, submissions and back/forward navigations and
\* the order in which responses arrive, once every fetch the page made has
\* settled, the results displayed are those of the most recent fetch; and
\* the response to an earlier fetch never overwrites the results of a
\* later one.
C20_LatestResponseShown ==
    /\ []((Pending = {} /\ results # 0) => results = NextCall - 1)
    /\ [][\A n \in Searches :
            (EndsCall(n) /\ results' # results) => results <= n]_vars

(* -------------------------------- C21 --------------------------------- *)

\* The input was last changed to an empty or blank value and no search was
\* issued since: searchAPI puts a controller in abortController at every
\* fetch, and only handleSearchTermChange puts null there
\* (part_001:51-54, 96-97).
Cleared == mounted /\ Trim(searchTerm) = "" /\ abortController = 0

\* C21: after the search input is changed to an empty or whitespace-only
\* value, results is empty, hasSearched is false and loading is false, and
\* they stay so until a new search is issued, also when fetches made before
\* the clearing (by typing, submit or navigation) complete afterwards.
C21_ClearedStaysCleared ==
    Cleared => (results = 0 /\ ~hasSearched /\ ~loading)

(* -------------------------------- C22 --------------------------------- *)

\* C22: with every fetch eventually completing, failing or being aborted,
\* loading is false once the last fetch the page made has settled, and so
\* loading, when true, eventually becomes false, whatever the typing,
\* submissions and navigations; a fetch that was aborted, and returned
\* without resetting loading, does not leave the page loading.
C22_LoadingEnds ==
    /\ []((Pending = {}) => ~loading)
    /\ (loading ~> ~loading)

\* Two fetches were aborted by typing while they were awaited and returned
\* without touching loading; the third completed: nothing pending and
\* loading false.
C22_Witness ==
    /\ calls[1].at = "dropped" /\ calls[2].at = "dropped"
    /\ calls[3].at = "done" /\ ~calls[3].aborted
    /\ Pending = {}
    /\ ~loading

=============================================================================
